---- MODULE Spec2Model ----
(***************************************************************************)
(* A model of direnv's configuration and state object (config.go):        *)
(* LoadConfig, Config.LoadedRC and Config.Revert, together with the        *)
(* collaborators they call (environment diffs, the trust store).           *)
(*                                                                         *)
(* Strings are sequences of one-character strings, so that prefixes,       *)
(* suffixes, path cleaning, duration parsing and diff (de)serialisation    *)
(* are computed character by character, as the code computes them.         *)
(* Durations are counted in seconds.                                       *)
(***************************************************************************)
EXTENDS Integers, Sequences, FiniteSets, TLC

(***************************************************************************)
(* Bounds of the model.                                                    *)
(***************************************************************************)
\* longest directory part of a path drawn as an input
MaxPathLen == 3
\* longest duration string drawn as an input
MaxDurLen == 3
\* number of user variables of an environment snapshot
MaxVars == 2
\* settings a config file declares in one place (top level or [global])
MaxDeclared == 2
\* Revert calls of one invocation (each allocates a new Env)
MaxReverts == 2
\* content changes of one script
MaxEdits == 2

(***************************************************************************)
(* Strings.                                                                *)
(***************************************************************************)
Empty == << >>

\* the strings over alphabet cs of length n, and of length at most n
RECURSIVE StringsOfLen(_, _)
StringsOfLen(cs, n) ==
    IF n = 0 THEN {Empty}
    ELSE {Append(s, c) : s \in StringsOfLen(cs, n - 1), c \in cs}

StringsUpTo(cs, n) == UNION {StringsOfLen(cs, k) : k \in 0..n}

\* strings.HasSuffix
HasSuffix(s, suffix) ==
    /\ Len(s) >= Len(suffix)
    /\ SubSeq(s, Len(s) - Len(suffix) + 1, Len(s)) = suffix

\* strings.HasPrefix
HasPrefix(s, prefix) ==
    /\ Len(s) >= Len(prefix)
    /\ SubSeq(s, 1, Len(prefix)) = prefix

\* strings.Replace(s, "\\", "/", -1)
ReplaceBackslash(s) == [i \in DOMAIN s |-> IF s[i] = "\\" THEN "/" ELSE s[i]]

Slash == <<"/">>
Dot == <<".">>
DotDot == <<".", ".">>
\* the script's file name, ".envrc"
EnvrcName == <<".", "e", "n", "v", "r", "c">>
\* "/.envrc"
SlashEnvrc == Slash \o EnvrcName

(***************************************************************************)
(* path/filepath (Unix): Clean and Join.                                   *)
(***************************************************************************)
\* the elements of a path between its separators, empty elements included
RECURSIVE SplitPath(_, _, _)
SplitPath(s, cur, acc) ==
    IF s = Empty THEN Append(acc, cur)
    ELSE IF Head(s) = "/" THEN SplitPath(Tail(s), Empty, Append(acc, cur))
    ELSE SplitPath(Tail(s), Append(cur, Head(s)), acc)

\* Clean's pass over the elements: "" and "." are dropped, ".." removes the
\* element before it, is dropped at the root and kept in a relative path
RECURSIVE CleanElems(_, _, _)
CleanElems(elems, rooted, out) ==
    IF elems = << >> THEN out
    ELSE LET e == Head(elems)
             rest == Tail(elems)
         IN  IF e = Empty \/ e = Dot THEN CleanElems(rest, rooted, out)
             ELSE IF e = DotDot
             THEN IF out # << >> /\ out[Len(out)] # DotDot
                  THEN CleanElems(rest, rooted, SubSeq(out, 1, Len(out) - 1))
                  ELSE IF rooted THEN CleanElems(rest, rooted, out)
                  ELSE CleanElems(rest, rooted, Append(out, e))
             ELSE CleanElems(rest, rooted, Append(out, e))

RECURSIVE JoinElems(_)
JoinElems(elems) ==
    IF elems = << >> THEN Empty
    ELSE IF Len(elems) = 1 THEN elems[1]
    ELSE elems[1] \o Slash \o JoinElems(Tail(elems))

\* filepath.Clean
Clean(path) ==
    IF path = Empty THEN Dot
    ELSE LET rooted == Head(path) = "/"
             out == CleanElems(SplitPath(path, Empty, << >>), rooted, << >>)
             body == JoinElems(out)
         IN  IF rooted THEN Slash \o body
             ELSE IF body = Empty THEN Dot ELSE body

\* filepath.Join(a, b): empty elements are ignored, the rest is joined with
\* the separator and cleaned
Join(a, b) ==
    IF a # Empty THEN Clean(a \o Slash \o b)
    ELSE IF b # Empty THEN Clean(b)
    ELSE Empty

(***************************************************************************)
(* time.ParseDuration, over signed decimal integers with the units s, m    *)
(* and h; the result is in seconds.                                        *)
(***************************************************************************)
Digits == {"0", "1", "2", "3", "4", "5", "6", "7", "8", "9"}

DigitVal(c) ==
    CASE c = "0" -> 0 [] c = "1" -> 1 [] c = "2" -> 2 [] c = "3" -> 3
      [] c = "4" -> 4 [] c = "5" -> 5 [] c = "6" -> 6 [] c = "7" -> 7
      [] c = "8" -> 8 [] c = "9" -> 9

ParseFail == [ok |-> FALSE, d |-> 0]

\* the length of the longest prefix of s whose characters are all in cs
RECURSIVE SpanLen(_, _)
SpanLen(s, cs) ==
    IF s = Empty \/ Head(s) \notin cs THEN 0 ELSE 1 + SpanLen(Tail(s), cs)

\* the length of the longest prefix of s with no character in cs
RECURSIVE SpanLenNot(_, _)
SpanLenNot(s, cs) ==
    IF s = Empty \/ Head(s) \in cs THEN 0 ELSE 1 + SpanLenNot(Tail(s), cs)

RECURSIVE DecimalVal(_, _)
DecimalVal(s, acc) ==
    IF s = Empty THEN acc ELSE DecimalVal(Tail(s), acc * 10 + DigitVal(Head(s)))

UnitSeconds(u) ==
    CASE u = <<"s">> -> 1
      [] u = <<"m">> -> 60
      [] u = <<"h">> -> 3600
      [] OTHER -> 0

\* the loop of ParseDuration: ([0-9]+ unit)+
RECURSIVE ParseTerms(_, _)
ParseTerms(s, acc) ==
    IF s = Empty THEN [ok |-> TRUE, d |-> acc]
    ELSE LET nd == SpanLen(s, Digits)
             afterNum == SubSeq(s, nd + 1, Len(s))
             nu == SpanLenNot(afterNum, Digits \cup {"."})
             unit == SubSeq(afterNum, 1, nu)
             rest == SubSeq(afterNum, nu + 1, Len(afterNum))
         IN  IF nd = 0 \/ nu = 0 \/ UnitSeconds(unit) = 0 THEN ParseFail
             ELSE ParseTerms(rest, acc + DecimalVal(SubSeq(s, 1, nd), 0) * UnitSeconds(unit))

ParseDuration(s) ==
    LET neg == s # Empty /\ Head(s) = "-"
        signed == s # Empty /\ Head(s) \in {"-", "+"}
        body == IF signed THEN Tail(s) ELSE s
    IN  IF body = <<"0">> THEN [ok |-> TRUE, d |-> 0]
        ELSE IF body = Empty THEN ParseFail
        ELSE LET r == ParseTerms(body, 0)
             IN  IF ~r.ok THEN ParseFail
                 ELSE [ok |-> TRUE, d |-> IF neg THEN 0 - r.d ELSE r.d]

(***************************************************************************)
(* Environments: a map from variable names to strings.  An Env object      *)
(* lives in the heap and is named by its reference (its index there).      *)
(***************************************************************************)
DIRENV_CONFIG == "DIRENV_CONFIG"
DIRENV_BASH == "DIRENV_BASH"
DIRENV_DIR == "DIRENV_DIR"
DIRENV_WATCHES == "DIRENV_WATCHES"
DIRENV_DIFF == "DIRENV_DIFF"
DIRENV_WARN_TIMEOUT == "DIRENV_WARN_TIMEOUT"

\* env[key]: a Go map yields "" for a key it does not hold
Get(env, key) == IF key \in DOMAIN env THEN env[key] ELSE Empty

\* Env.Fetch(key, def): the default only when the key is not set
Fetch(env, key, def) == IF key \in DOMAIN env THEN env[key] ELSE def

\* env with key set to value
SetVar(env, key, value) ==
    [k \in DOMAIN env \cup {key} |-> IF k = key THEN value ELSE env[k]]

\* Env.Copy: a new object with the same entries
Copy(h, ref) == [heap |-> Append(h, h[ref]), ref |-> Len(h) + 1]

(***************************************************************************)
(* EnvDiff: name -> (old value or absent, new value or absent).            *)
(***************************************************************************)
Absent == [has |-> FALSE, v |-> Empty]
Present(v) == [has |-> TRUE, v |-> v]
Lookup(env, key) == IF key \in DOMAIN env THEN Present(env[key]) ELSE Absent

\* Compute(before, after): the keys whose value differs, with both values
Compute(before, after) ==
    LET changed == {k \in DOMAIN before \cup DOMAIN after :
                        Lookup(before, k) # Lookup(after, k)}
    IN  [k \in changed |-> [old |-> Lookup(before, k), new |-> Lookup(after, k)]]

\* EnvDiff.Reverse: old and new swapped in every entry
Reverse(diff) == [k \in DOMAIN diff |-> [old |-> diff[k].new, new |-> diff[k].old]]

\* the entries Patch leaves in env: a key whose new value is absent is
\* deleted, any other key of the diff is set to its new value
Apply(diff, env) ==
    LET removed == {k \in DOMAIN diff : ~diff[k].new.has}
        set == {k \in DOMAIN diff : diff[k].new.has}
    IN  [k \in (DOMAIN env \ removed) \cup set |->
            IF k \in set THEN diff[k].new.v ELSE env[k]]

\* EnvDiff.Patch(env): a new object, the argument is left as it is
Patch(h, diff, ref) == [heap |-> Append(h, Apply(diff, h[ref])), ref |-> Len(h) + 1]

(***************************************************************************)
(* Serialisation of a diff into one string: a header, then per entry the   *)
(* name and the two values, each value either the absent mark or the       *)
(* present mark, its length and its characters.                            *)
(***************************************************************************)
DiffHeader == "#"
AbsentMark == "~"
PresentMark == "="

\* the names in the order Encode writes them
NameOrder == <<"F", "P", "Q", "R">>

DigitOf(n) ==
    CASE n = 0 -> "0" [] n = 1 -> "1" [] n = 2 -> "2" [] n = 3 -> "3"
      [] n = 4 -> "4" [] n = 5 -> "5" [] n = 6 -> "6" [] n = 7 -> "7"
      [] n = 8 -> "8" [] n = 9 -> "9"

EncodeValue(o) ==
    IF o.has THEN <<PresentMark, DigitOf(Len(o.v))>> \o o.v ELSE <<AbsentMark>>

RECURSIVE EncodeEntries(_, _)
EncodeEntries(diff, i) ==
    IF i > Len(NameOrder) THEN Empty
    ELSE LET k == NameOrder[i]
         IN  (IF k \in DOMAIN diff
              THEN <<k>> \o EncodeValue(diff[k].old) \o EncodeValue(diff[k].new)
              ELSE Empty) \o EncodeEntries(diff, i + 1)

\* EnvDiff.Serialize
Encode(diff) == <<DiffHeader>> \o EncodeEntries(diff, 1)

DecodeFail == [ok |-> FALSE, diff |-> << >>, rest |-> Empty]

\* one value off the front of s: [ok, o, rest]
DecodeValue(s) ==
    IF s = Empty THEN [ok |-> FALSE, o |-> Absent, rest |-> Empty]
    ELSE IF Head(s) = AbsentMark THEN [ok |-> TRUE, o |-> Absent, rest |-> Tail(s)]
    ELSE IF Head(s) = PresentMark /\ Len(s) >= 2 /\ s[2] \in Digits
                /\ Len(s) >= 2 + DigitVal(s[2])
         THEN [ok |-> TRUE,
               o |-> Present(SubSeq(s, 3, 2 + DigitVal(s[2]))),
               rest |-> SubSeq(s, 3 + DigitVal(s[2]), Len(s))]
         ELSE [ok |-> FALSE, o |-> Absent, rest |-> Empty]

RECURSIVE DecodeEntries(_, _)
DecodeEntries(s, acc) ==
    IF s = Empty THEN [ok |-> TRUE, diff |-> acc, rest |-> Empty]
    ELSE LET k == Head(s)
             old == DecodeValue(Tail(s))
             new == DecodeValue(old.rest)
         IN  IF k \in DOMAIN acc \/ ~old.ok \/ ~new.ok THEN DecodeFail
             ELSE DecodeEntries(new.rest,
                      [n \in DOMAIN acc \cup {k} |->
                          IF n = k THEN [old |-> old.o, new |-> new.o] ELSE acc[n]])

\* LoadEnvDiff: the diff of a serialised string, or an error; never a part
\* of a diff
LoadEnvDiff(s) ==
    IF s = Empty \/ Head(s) # DiffHeader THEN DecodeFail
    ELSE DecodeEntries(Tail(s), << >>)

(***************************************************************************)
(* The config file (direnv.toml or config.toml) and its decoding.          *)
(***************************************************************************)
\* the settings of tomlGlobal, by their TOML keys
SettingKeys == <<"bash_builtin", "bash_path", "disable_stdin", "strict_env", "warn_timeout">>
SettingSet == {SettingKeys[i] : i \in DOMAIN SettingKeys}

\* var global tomlGlobal: every field at its zero value
ZeroGlobal ==
    [k \in SettingSet |->
        IF k = "bash_path" THEN Empty ELSE IF k = "warn_timeout" THEN 0 ELSE FALSE]

\* no file of that name in the configuration directory
NoFile == [exists |-> FALSE, valid |-> FALSE, top |-> << >>, global |-> << >>,
           prefix |-> << >>, exact |-> << >>]

\* tomlDuration.UnmarshalText
UnmarshalText(text) == ParseDuration(text)

\* the decoder stores one key's value in the field the key maps to; both
\* the embedded *tomlGlobal and Global point to the same record g
StoreField(g, key, value) ==
    [g EXCEPT ![key] = IF key = "warn_timeout" THEN UnmarshalText(value).d ELSE value]

RECURSIVE StoreAll(_, _)
StoreAll(g, writes) ==
    IF writes = << >> THEN g
    ELSE StoreAll(StoreField(g, Head(writes)[1], Head(writes)[2]), Tail(writes))

\* the keys of table, in the order of SettingKeys, that satisfy keep
RECURSIVE TableWrites(_, _, _)
TableWrites(table, keep, i) ==
    IF i > Len(SettingKeys) THEN << >>
    ELSE LET k == SettingKeys[i]
         IN  (IF k \in DOMAIN table /\ k \in keep THEN << <<k, table[k]>> >> ELSE << >>)
                 \o TableWrites(table, keep, i + 1)

\* the order in which the decoder visits the keys of the file: the top-level
\* keys in `before`, then the [global] table, then the other top-level keys
\* (the decoder ranges over a map, whose order is not fixed)
DecodeOrder(file, before) ==
    TableWrites(file.top, before, 1)
        \o TableWrites(file.global, SettingSet, 1)
        \o TableWrites(file.top, SettingSet \ before, 1)

\* the decoder fails on a file that is not TOML and on a warn_timeout that
\* is no duration
Decodable(file) ==
    /\ file.valid
    /\ "warn_timeout" \in DOMAIN file.top => UnmarshalText(file.top["warn_timeout"]).ok
    /\ "warn_timeout" \in DOMAIN file.global => UnmarshalText(file.global["warn_timeout"]).ok

\* a decoder with one record per place, [global] taking precedence
DecodeFileGlobalWins(file, before) ==
    [ok |-> Decodable(file),
     global |-> StoreAll(ZeroGlobal, TableWrites(file.top, SettingSet, 1)
                                        \o TableWrites(file.global, SettingSet, 1)),
     prefix |-> file.prefix,
     exact |-> file.exact]

\* toml.DecodeFile(config.TomlPath, &tomlConf) with tomlGlobal and Global
\* sharing one record
DecodeFile(file, before) ==
    [ok |-> Decodable(file),
     global |-> StoreAll(ZeroGlobal, DecodeOrder(file, before)),
     prefix |-> file.prefix,
     exact |-> file.exact]

(***************************************************************************)
(* The steps of LoadConfig.                                                *)
(***************************************************************************)
NoErr == "nil"
NilRef == 0
ErrConfDir == "couldn't find a configuration directory for direnv"
ErrExecutable == "LoadConfig() os.Executable() failed"
ErrGetwd == "LoadConfig() Getwd failed"
ErrParse == "LoadConfig() failed to parse"
ErrCacheDir == "couldn't find a cache directory for direnv"
ErrDataDir == "couldn't find a data directory for direnv"

\* config.ConfDir: DIRENV_CONFIG, else the XDG configuration directory
ResolveConfDir(env, xdgConfig) ==
    IF Get(env, DIRENV_CONFIG) # Empty THEN Get(env, DIRENV_CONFIG) ELSE xdgConfig

\* the recorded directory kept with its marker
StripMarkerKeep(dir) == dir

\* config.RCDir: DIRENV_DIR without one leading "-"
StripMarker(dir) ==
    IF Len(dir) > 0 /\ SubSeq(dir, 1, 1) = <<"-">> THEN Tail(dir) ELSE dir

DirenvToml == <<"direnv.toml">>
ConfigToml == <<"config.toml">>

\* config.TomlPath: direnv.toml, else config.toml, else none
ResolveTomlPath(confDir, s) ==
    IF s.direnvToml.exists THEN Join(confDir, DirenvToml)
    ELSE IF s.configToml.exists THEN Join(confDir, ConfigToml)
    ELSE Empty

\* the file at config.TomlPath
TomlFileAt(s) == IF s.direnvToml.exists THEN s.direnvToml ELSE s.configToml

\* an exact entry stored as it is listed
ExactKeyAsListed(path) == path

\* an exact entry joined with the file name whatever it ends in
ExactKeyAlwaysJoin(path) == Join(path, EnvrcName)

\* the key of one exact whitelist entry
ExactKey(path) ==
    IF ~HasSuffix(path, SlashEnvrc) THEN Join(path, EnvrcName) ELSE path

\* config.WhitelistExact after the loop over the exact entries
ExactSet(exact) == {ExactKey(exact[i]) : i \in DOMAIN exact}

FiveSeconds == 5
DefaultWarnTimeout == <<"5", "s">>
InvalidWarnTimeout == "invalid DIRENV_WARN_TIMEOUT"

\* an invalid DIRENV_WARN_TIMEOUT leaves the threshold at zero
ResolveWarnTimeoutNoDefault(env) ==
    LET parsed == ParseDuration(Fetch(env, DIRENV_WARN_TIMEOUT, DefaultWarnTimeout))
    IN  IF ~parsed.ok
        THEN [timeout |-> 0, log |-> <<InvalidWarnTimeout>>]
        ELSE [timeout |-> parsed.d, log |-> << >>]

\* the threshold when the config file gave none: DIRENV_WARN_TIMEOUT, 5s by
\* default and when it does not parse (which is logged; err is a local here)
ResolveWarnTimeout(env) ==
    LET parsed == ParseDuration(Fetch(env, DIRENV_WARN_TIMEOUT, DefaultWarnTimeout))
    IN  IF ~parsed.ok
        THEN [timeout |-> FiveSeconds, log |-> <<InvalidWarnTimeout>>]
        ELSE [timeout |-> parsed.d, log |-> << >>]

CantFindBash == "can't find bash"

\* the built-in path tried before DIRENV_BASH
ResolveBashPathBuiltinFirst(env, s) ==
    IF s.bashPath # Empty THEN [path |-> s.bashPath, err |-> NoErr]
    ELSE IF Get(env, DIRENV_BASH) # Empty THEN [path |-> Get(env, DIRENV_BASH), err |-> NoErr]
    ELSE IF s.lookPath # Empty THEN [path |-> s.lookPath, err |-> NoErr]
    ELSE [path |-> Empty, err |-> CantFindBash]

\* config.BashPath when the config file gave none: DIRENV_BASH, else the
\* built-in bashPath, else exec.LookPath("bash")
ResolveBashPath(env, s) ==
    IF Get(env, DIRENV_BASH) # Empty THEN [path |-> Get(env, DIRENV_BASH), err |-> NoErr]
    ELSE IF s.bashPath # Empty THEN [path |-> s.bashPath, err |-> NoErr]
    ELSE IF s.lookPath # Empty THEN [path |-> s.lookPath, err |-> NoErr]
    ELSE [path |-> Empty, err |-> CantFindBash]

\* config = &Config{Env: env}
ZeroConfig(envRef) ==
    [Env |-> envRef, WorkDir |-> Empty, ConfDir |-> Empty, CacheDir |-> Empty,
     DataDir |-> Empty, SelfPath |-> Empty, BashBuiltin |-> FALSE, BashPath |-> Empty,
     RCDir |-> Empty, TomlPath |-> Empty, DisableStdin |-> FALSE, StrictEnv |-> FALSE,
     WarnTimeout |-> 0, WhitelistPrefix |-> << >>, WhitelistExact |-> {}]

Returned(c, e, l) == [config |-> c, err |-> e, log |-> l]

\* LoadConfig, from the cache directory on
LoadDirs(c, s, l) ==
    LET c1 == [c EXCEPT !.CacheDir = s.xdgCache]
        c2 == [c1 EXCEPT !.DataDir = s.xdgData]
    IN  IF c1.CacheDir = Empty
        THEN Returned(c1, ErrCacheDir, l)
        ELSE IF c2.DataDir = Empty
        THEN Returned(c2, ErrDataDir, l)
        ELSE Returned(c2, NoErr, l)

\* LoadConfig, from the warning threshold on
LoadSettings(c, env, s) ==
    LET w == ResolveWarnTimeout(env)
        c1 == IF c.WarnTimeout = 0 THEN [c EXCEPT !.WarnTimeout = w.timeout] ELSE c
        l == IF c.WarnTimeout = 0 THEN w.log ELSE << >>
        b == ResolveBashPath(env, s)
        c2 == IF c1.BashPath = Empty THEN [c1 EXCEPT !.BashPath = b.path] ELSE c1
    IN  IF c1.BashPath = Empty /\ b.err # NoErr
        THEN Returned(c2, b.err, l)
        ELSE LoadDirs(c2, s, l)

\* LoadConfig, from the config file on
LoadToml(c, env, s) ==
    IF c.TomlPath = Empty THEN LoadSettings(c, env, s)
    ELSE LET dec == DecodeFile(TomlFileAt(s), s.before)
             c1 == [c EXCEPT !.WhitelistPrefix = c.WhitelistPrefix \o dec.prefix,
                             !.WhitelistExact = ExactSet(dec.exact),
                             !.BashBuiltin = dec.global["bash_builtin"],
                             !.BashPath = dec.global["bash_path"],
                             !.DisableStdin = dec.global["disable_stdin"],
                             !.StrictEnv = dec.global["strict_env"],
                             !.WarnTimeout = dec.global["warn_timeout"]]
         IN  IF ~dec.ok THEN Returned(c, ErrParse, << >>)
             ELSE LoadSettings(c1, env, s)

\* LoadConfig(env): the Config and the error it returns, and what it logs
LoadConfigOf(s, env) ==
    LET c0 == ZeroConfig(s.env)
        c1 == [c0 EXCEPT !.ConfDir = ResolveConfDir(env, s.xdgConfig)]
        c2 == [c1 EXCEPT !.SelfPath = ReplaceBackslash(s.exePath)]
        c3 == [c2 EXCEPT !.WorkDir = s.cwd,
                         !.RCDir = StripMarker(Get(env, DIRENV_DIR)),
                         !.TomlPath = ResolveTomlPath(c1.ConfDir, s)]
    IN  IF c1.ConfDir = Empty
        THEN Returned(c1, ErrConfDir, << >>)
        ELSE IF ~s.exeOK THEN Returned(c1, ErrExecutable, << >>)
        ELSE IF ~s.cwdOK THEN Returned(c2, ErrGetwd, << >>)
        ELSE LoadToml(c3, env, s)

(***************************************************************************)
(* Config.LoadedRC and Config.Revert.                                      *)
(***************************************************************************)
NilRC == [nil |-> TRUE, path |-> Empty, times |-> Empty]

\* RCFromEnv(path, timesString, config): the handle of the script at path
\* with the recorded watch set
RCFromEnv(path, timesString) == [nil |-> FALSE, path |-> path, times |-> timesString]

\* Config.LoadedRC
LoadedRCOf(c, env) ==
    IF c.RCDir = Empty THEN NilRC
    ELSE RCFromEnv(Join(c.RCDir, EnvrcName), Get(env, DIRENV_WATCHES))

Reverted(h, ref, e) == [heap |-> h, ref |-> ref, err |-> e]

DiffDecodeError == "DiffDecodeError"

\* Revert that hands back the environment it was given
RevertNoCopy(h, cfgEnv, env) ==
    LET recorded == Get(h[cfgEnv], DIRENV_DIFF)
        loaded == LoadEnvDiff(recorded)
        patched == Patch(h, Reverse(loaded.diff), env)
    IN  IF recorded = Empty THEN Reverted(h, env, NoErr)
        ELSE IF loaded.ok THEN Reverted(patched.heap, patched.ref, NoErr)
        ELSE Reverted(h, NilRef, DiffDecodeError)

\* Revert that applies the recorded diff as it is
RevertNoReverse(h, cfgEnv, env) ==
    LET recorded == Get(h[cfgEnv], DIRENV_DIFF)
        loaded == LoadEnvDiff(recorded)
        copied == Copy(h, env)
        patched == Patch(h, loaded.diff, env)
    IN  IF recorded = Empty THEN Reverted(copied.heap, copied.ref, NoErr)
        ELSE IF loaded.ok THEN Reverted(patched.heap, patched.ref, NoErr)
        ELSE Reverted(h, NilRef, DiffDecodeError)

\* Revert that takes a diff it cannot decode for no diff
RevertIgnoreError(h, cfgEnv, env) ==
    LET recorded == Get(h[cfgEnv], DIRENV_DIFF)
        loaded == LoadEnvDiff(recorded)
        copied == Copy(h, env)
        patched == Patch(h, Reverse(loaded.diff), env)
    IN  IF recorded = Empty THEN Reverted(copied.heap, copied.ref, NoErr)
        ELSE IF loaded.ok THEN Reverted(patched.heap, patched.ref, NoErr)
        ELSE Reverted(copied.heap, copied.ref, NoErr)

\* Config.Revert(env): the heap after the call, the Env returned (NilRef
\* for nil) and the error returned
Revert(h, cfgEnv, env) ==
    LET recorded == Get(h[cfgEnv], DIRENV_DIFF)
        loaded == LoadEnvDiff(recorded)
        copied == Copy(h, env)
        patched == Patch(h, Reverse(loaded.diff), env)
    IN  IF recorded = Empty THEN Reverted(copied.heap, copied.ref, NoErr)
        ELSE IF loaded.ok THEN Reverted(patched.heap, patched.ref, NoErr)
        ELSE Reverted(h, NilRef, DiffDecodeError)

(***************************************************************************)
(* The trust store.                                                        *)
(***************************************************************************)
\* the key of a script's approval record, derived from its path
PathKey(path) == <<"allow">> \o path

Decision(t, r) == [trusted |-> t, reason |-> r]

WhitelistedExact(c, path) == path \in c.WhitelistExact

WhitelistedPrefix(c, path) ==
    \E i \in DOMAIN c.WhitelistPrefix : HasPrefix(path, c.WhitelistPrefix[i])

\* a check that trusts any script that has an approval record
IsAllowedAnyRecord(c, records, path, signature) ==
    IF WhitelistedExact(c, path) THEN Decision(TRUE, "whitelisted-exact")
    ELSE IF WhitelistedPrefix(c, path) THEN Decision(TRUE, "whitelisted-prefix")
    ELSE IF PathKey(path) \notin DOMAIN records THEN Decision(FALSE, "unapproved")
    ELSE Decision(TRUE, "explicitly-approved")

\* IsAllowed(scriptPath, signature, whitelist)
IsAllowed(c, records, path, signature) ==
    IF WhitelistedExact(c, path) THEN Decision(TRUE, "whitelisted-exact")
    ELSE IF WhitelistedPrefix(c, path) THEN Decision(TRUE, "whitelisted-prefix")
    ELSE IF PathKey(path) \notin DOMAIN records THEN Decision(FALSE, "unapproved")
    ELSE IF records[PathKey(path)] = signature THEN Decision(TRUE, "explicitly-approved")
    ELSE Decision(FALSE, "stale-approval")

\* Approve(scriptPath, signature): writes or overwrites the record
ApproveOf(records, path, signature) ==
    [k \in DOMAIN records \cup {PathKey(path)} |->
        IF k = PathKey(path) THEN signature ELSE records[k]]

\* Revoke(scriptPath): deletes the record, if any
RevokeOf(records, path) ==
    [k \in DOMAIN records \ {PathKey(path)} |-> records[k]]

(***************************************************************************)
(* The state of one invocation of the program.                             *)
(***************************************************************************)
VARIABLES
    heap,      \* the Env objects, by reference
    sys,       \* what the process finds: its Env, the files, the platform
    phase,     \* "start", then "loaded" or "failed" once LoadConfig returned
    config,    \* the Config LoadConfig returned
    err,       \* the error the last call returned
    log,       \* what logError was given
    ret,       \* the last call on the Config and what it returned
    records,   \* the persisted approval records, by key
    scripts,   \* the current content signature of every script
    hist       \* the snapshots before and after the script last ran

vars == <<heap, sys, phase, config, err, log, ret, records, scripts, hist>>

NoRet == [op |-> "none", arg |-> NilRef, env |-> NilRef, rc |-> NilRC,
          script |-> Empty, trust |-> Decision(FALSE, "none")]

NoHist == [before |-> << >>, after |-> << >>]

\* some opaque paths
XdgConfig == <<"/", "c">>
XdgCache == <<"/", "k">>
XdgData == <<"/", "d">>
BashFile == <<"/", "f">>
BashEnv == <<"/", "e">>
BashBuiltin == <<"/", "b">>
BashLooked == <<"/", "l">>

DefaultSys ==
    [env |-> 1, direnvToml |-> NoFile, configToml |-> NoFile,
     xdgConfig |-> XdgConfig, xdgCache |-> XdgCache, xdgData |-> XdgData,
     exeOK |-> TRUE, exePath |-> <<"/", "p">>, cwdOK |-> TRUE, cwd |-> <<"/", "x">>,
     bashPath |-> Empty, lookPath |-> BashLooked, before |-> {}]

\* a config file that decodes
File(top, global, prefix, exact) ==
    [exists |-> TRUE, valid |-> TRUE, top |-> top, global |-> global,
     prefix |-> prefix, exact |-> exact]

BadFile == [File(<< >>, << >>, << >>, << >>) EXCEPT !.valid = FALSE]

\* a process started in surroundings s, with the Env objects h, the scripts
\* sc on disk and the last run of a script hi
StartWith(s, h, sc, hi) ==
    /\ sys = s
    /\ heap = h
    /\ phase = "start"
    /\ config = ZeroConfig(NilRef)
    /\ err = NoErr
    /\ log = << >>
    /\ ret = NoRet
    /\ records = << >>
    /\ scripts = sc
    /\ hist = hi

\* a process started with Env env in surroundings s
Start(s, env) == StartWith(s, <<env>>, << >>, NoHist)

NoEnv == << >>
OneVar(key, value) == [k \in {key} |-> value]

(***************************************************************************)
(* Inputs: whitelists.                                                     *)
(***************************************************************************)
Dirs == StringsUpTo({"/", "x", "."}, MaxPathLen)
PathInputs == Dirs \cup {d \o SlashEnvrc : d \in Dirs} \cup {d \o EnvrcName : d \in Dirs}
HomeX == <<"/", "h", "/", "x">>
SecondEntries == {HomeX, HomeX \o SlashEnvrc}
ExactLists ==
    {<< >>} \cup {<<p>> : p \in PathInputs \cup SecondEntries}
            \cup {<<p, q>> : p \in PathInputs, q \in SecondEntries}
PrefixLists ==
    {<< >>, <<HomeX \o SlashEnvrc>>, <<HomeX, Slash>>}
        \cup {<<d>> : d \in StringsUpTo({"/", "x", "."}, 2)}

InitWhitelist ==
    \E exact \in ExactLists, prefix \in PrefixLists :
        Start([DefaultSys EXCEPT !.direnvToml = File(<< >>, << >>, prefix, exact)], NoEnv)

(***************************************************************************)
(* Inputs: which files exist, and the platform.                            *)
(***************************************************************************)
SomeFiles == {NoFile, BadFile,
              File(OneVar("strict_env", TRUE), << >>, <<Slash>>, <<HomeX>>),
              File(<< >>, OneVar("bash_path", BashFile), << >>, << >>)}

InitFiles ==
    \E f1 \in SomeFiles, f2 \in SomeFiles, exe \in BOOLEAN, cwd \in BOOLEAN,
       xc \in {Empty, XdgConfig}, xk \in {Empty, XdgCache}, xd \in {Empty, XdgData},
       env \in {NoEnv, OneVar(DIRENV_CONFIG, Empty), OneVar(DIRENV_CONFIG, <<"/", "o">>)} :
        Start([DefaultSys EXCEPT !.direnvToml = f1, !.configToml = f2,
                                 !.exeOK = exe, !.cwdOK = cwd,
                                 !.exePath = <<"\\", "p">>,
                                 !.xdgConfig = xc, !.xdgCache = xk, !.xdgData = xd], env)

(***************************************************************************)
(* Inputs: the warning threshold.                                          *)
(***************************************************************************)
DurChars == {"0", "5", "s", "m", "x", "-"}
DurStrings == StringsUpTo(DurChars, MaxDurLen)
FileDurs == {<<"0">>, <<"7", "s">>, <<"-", "1", "s">>, <<"x">>}
TimeoutFiles ==
    {NoFile, File(<< >>, << >>, << >>, << >>)}
        \cup {File(OneVar("warn_timeout", t), << >>, << >>, << >>) : t \in FileDurs}
        \cup {File(<< >>, OneVar("warn_timeout", t), << >>, << >>) : t \in FileDurs}

InitTimeout ==
    \E f \in TimeoutFiles,
       env \in {NoEnv} \cup {OneVar(DIRENV_WARN_TIMEOUT, t) : t \in DurStrings} :
        Start([DefaultSys EXCEPT !.direnvToml = f], env)

(***************************************************************************)
(* Inputs: settings declared at top level, in [global], or in both.        *)
(***************************************************************************)
SettingValues(k) ==
    IF k = "bash_path" THEN {BashFile, BashEnv}
    ELSE IF k = "warn_timeout" THEN {<<"7", "s">>, <<"1", "m">>}
    ELSE {TRUE, FALSE}

Extend(table, k, v) == [x \in DOMAIN table \cup {k} |-> IF x = k THEN v ELSE table[x]]

\* the tables that declare at most n of the settings from the i-th on
RECURSIVE Tables(_, _)
Tables(i, n) ==
    IF i > Len(SettingKeys) \/ n = 0 THEN {<< >>}
    ELSE Tables(i + 1, n)
            \cup {Extend(t, SettingKeys[i], v) :
                      t \in Tables(i + 1, n - 1), v \in SettingValues(SettingKeys[i])}

InitMerge ==
    \E top \in Tables(1, MaxDeclared), global \in Tables(1, MaxDeclared) :
        \E before \in SUBSET (DOMAIN top \cap DOMAIN global) :
            Start([DefaultSys EXCEPT !.direnvToml = File(top, global, << >>, << >>),
                                     !.before = before], NoEnv)

(***************************************************************************)
(* Inputs: the interpreter.                                                *)
(***************************************************************************)
BashFiles ==
    {NoFile, File(<< >>, << >>, << >>, << >>),
     File(OneVar("bash_path", Empty), << >>, << >>, << >>),
     File(OneVar("bash_path", BashFile), << >>, << >>, << >>),
     File(<< >>, OneVar("bash_path", BashFile), << >>, << >>)}

InitBash ==
    \E f \in BashFiles, builtin \in {Empty, BashBuiltin}, looked \in {Empty, BashLooked},
       env \in {NoEnv, OneVar(DIRENV_BASH, Empty), OneVar(DIRENV_BASH, BashEnv)} :
        Start([DefaultSys EXCEPT !.direnvToml = f, !.bashPath = builtin,
                                 !.lookPath = looked], env)

(***************************************************************************)
(* Inputs: the recorded directory.                                         *)
(***************************************************************************)
RecordedDirs == StringsUpTo({"-", "/", "x"}, MaxPathLen)
WatchStrings == {Empty, <<"w">>}

InitRCDir ==
    \E env \in {NoEnv} \cup {OneVar(DIRENV_DIR, d) : d \in RecordedDirs}
                       \cup {OneVar(DIRENV_WATCHES, w) : w \in WatchStrings}
                       \cup {SetVar(OneVar(DIRENV_DIR, d), DIRENV_WATCHES, w) :
                                 d \in RecordedDirs, w \in WatchStrings} :
        Start(DefaultSys, env)

(***************************************************************************)
(* The calls.                                                              *)
(***************************************************************************)
\* config, err = LoadConfig(env)
LoadConfig ==
    /\ phase = "start"
    /\ LET r == LoadConfigOf(sys, heap[sys.env])
       IN  /\ config' = r.config
           /\ err' = r.err
           /\ log' = r.log
           /\ phase' = IF r.err = NoErr THEN "loaded" ELSE "failed"
    /\ UNCHANGED <<heap, sys, ret, records, scripts, hist>>

\* config.LoadedRC()
LoadedRC ==
    /\ phase = "loaded"
    /\ ret' = [NoRet EXCEPT !.op = "LoadedRC", !.rc = LoadedRCOf(config, heap[config.Env])]
    /\ UNCHANGED <<heap, sys, phase, config, err, log, records, scripts, hist>>

Init == InitWhitelist \/ InitFiles \/ InitTimeout \/ InitMerge \/ InitBash \/ InitRCDir

Next == LoadConfig \/ LoadedRC

Spec == Init /\ [][Next]_vars

(***************************************************************************)
(* Properties of LoadConfig and LoadedRC.                                  *)
(***************************************************************************)
\* the Env the process was started with
ProcEnv == heap[sys.env]

\* the config file LoadConfig reads, NoFile when there is none
FileRead == IF sys.direnvToml.exists THEN sys.direnvToml ELSE sys.configToml

EndsInSlashEnvrc(p) ==
    Len(p) >= 7 /\ SubSeq(p, Len(p) - 6, Len(p)) = <<"/", ".", "e", "n", "v", "r", "c">>

EndsInEnvrc(p) ==
    Len(p) >= 6 /\ SubSeq(p, Len(p) - 5, Len(p)) = <<".", "e", "n", "v", "r", "c">>

\* C4: after a successful LoadConfig the exact set holds, for every exact
\* entry p of the config file, p itself when p ends in "/.envrc" and p joined
\* with ".envrc" otherwise, and nothing else; an entry for the directory
\* /h/x and an entry for the script /h/x/.envrc both give the key
\* /h/x/.envrc, which is the key a trust query for that script looks up.
C4_ExactKeys ==
    phase = "loaded" =>
        LET exact == FileRead.exact
        IN  /\ config.WhitelistExact =
                  {IF EndsInSlashEnvrc(exact[i]) THEN exact[i]
                   ELSE Join(exact[i], <<".", "e", "n", "v", "r", "c">>) : i \in DOMAIN exact}
            /\ (exact = <<HomeX>> \/ exact = <<HomeX \o SlashEnvrc>>) =>
                  /\ config.WhitelistExact = {<<"/", "h", "/", "x", "/", ".", "e", "n", "v", "r", "c">>}
                  /\ WhitelistedExact(config, Join(HomeX, EnvrcName))

C4_Witness ==
    /\ phase = "loaded"
    /\ Len(FileRead.exact) = 2
    /\ FileRead.exact[1] = <<"/", "x", "/">>
    /\ FileRead.exact[2] = HomeX \o SlashEnvrc
    /\ config.WhitelistExact = {<<"/", "x">> \o SlashEnvrc, HomeX \o SlashEnvrc}

\* C5 as stated: after a successful LoadConfig every whitelist entry, of
\* the exact set and of the prefix set, ends in ".envrc".
C5_AllEntriesNormalized ==
    phase = "loaded" =>
        /\ \A e \in config.WhitelistExact : EndsInEnvrc(e)
        /\ \A i \in DOMAIN config.WhitelistPrefix : EndsInEnvrc(config.WhitelistPrefix[i])

\* C5 amended: after a successful LoadConfig every entry of the exact set
\* ends in ".envrc", and the prefix set holds the prefix entries of the
\* config file exactly as they are listed.
C5_ExactNormalizedPrefixAsListed ==
    phase = "loaded" =>
        /\ \A e \in config.WhitelistExact : EndsInEnvrc(e)
        /\ config.WhitelistPrefix = FileRead.prefix

C5_Witness ==
    /\ phase = "loaded"
    /\ FileRead.exact = <<Dot, HomeX>>
    /\ FileRead.prefix = <<HomeX, Slash>>
    /\ config.WhitelistPrefix = <<HomeX, Slash>>
    /\ config.WhitelistExact = {EnvrcName, HomeX \o SlashEnvrc}

\* DIRENV_DIR with at most one leading "-" removed
RecordedDir ==
    LET d == Get(ProcEnv, DIRENV_DIR)
    IN  IF d # Empty /\ d[1] = "-" THEN SubSeq(d, 2, Len(d)) ELSE d

\* C6: LoadedRC returns none exactly when DIRENV_DIR is empty (or unset) or
\* is the "-" marker alone; otherwise it returns the handle of the script
\* .envrc in the directory DIRENV_DIR names once at most one leading "-" is
\* removed, with the watch set of DIRENV_WATCHES.
C6_LoadedRC ==
    ret.op = "LoadedRC" =>
        /\ ret.rc.nil <=> Get(ProcEnv, DIRENV_DIR) \in {Empty, <<"-">>}
        /\ ~ret.rc.nil =>
              /\ ret.rc.path = Join(RecordedDir, EnvrcName)
              /\ ret.rc.times = Get(ProcEnv, DIRENV_WATCHES)
              /\ (Clean(RecordedDir) = RecordedDir /\ RecordedDir # Slash) =>
                    ret.rc.path = RecordedDir \o <<"/", ".", "e", "n", "v", "r", "c">>

C6_Witness ==
    /\ ret.op = "LoadedRC"
    /\ Get(ProcEnv, DIRENV_DIR) = <<"-", "/", "x">>
    /\ Get(ProcEnv, DIRENV_WATCHES) = <<"w">>
    /\ ret.rc = [nil |-> FALSE, path |-> <<"/", "x">> \o SlashEnvrc, times |-> <<"w">>]

\* k is declared in the config file read, at top level or in [global]
AtTop(k) == k \in DOMAIN FileRead.top
InGlobal(k) == k \in DOMAIN FileRead.global

\* the warn_timeout of the config file read, 0 when it declares none (for a
\* file that declares it in one place only)
FileWarnTimeout ==
    IF AtTop("warn_timeout") THEN ParseDuration(FileRead.top["warn_timeout"]).d
    ELSE IF InGlobal("warn_timeout") THEN ParseDuration(FileRead.global["warn_timeout"]).d
    ELSE 0

\* nothing but DIRENV_WARN_TIMEOUT stands in LoadConfig's way
NothingElseFails ==
    /\ Get(ProcEnv, DIRENV_CONFIG) # Empty \/ sys.xdgConfig # Empty
    /\ sys.exeOK /\ sys.cwdOK
    /\ FileRead.exists => Decodable(FileRead)
    /\ sys.xdgCache # Empty /\ sys.xdgData # Empty
    /\ \/ Get(ProcEnv, DIRENV_BASH) # Empty \/ sys.bashPath # Empty \/ sys.lookPath # Empty
       \/ /\ AtTop("bash_path") \/ InGlobal("bash_path")
          /\ AtTop("bash_path") => FileRead.top["bash_path"] # Empty
          /\ InGlobal("bash_path") => FileRead.global["bash_path"] # Empty

\* C8: a non-zero warn_timeout of the config file is the threshold; otherwise
\* the threshold is DIRENV_WARN_TIMEOUT parsed, 5s when it is unset, and 5s
\* with an error logged when it is no duration; an invalid
\* DIRENV_WARN_TIMEOUT never makes LoadConfig fail.
C8_WarnTimeout ==
    /\ (phase # "start" /\ NothingElseFails) => (phase = "loaded" /\ err = NoErr)
    /\ (phase = "loaded" /\ ~(AtTop("warn_timeout") /\ InGlobal("warn_timeout"))) =>
          LET set == DIRENV_WARN_TIMEOUT \in DOMAIN ProcEnv
              parsed == ParseDuration(Get(ProcEnv, DIRENV_WARN_TIMEOUT))
          IN  IF FileWarnTimeout # 0
              THEN config.WarnTimeout = FileWarnTimeout /\ log = << >>
              ELSE IF ~set THEN config.WarnTimeout = 5 /\ log = << >>
              ELSE IF parsed.ok THEN config.WarnTimeout = parsed.d /\ log = << >>
              ELSE config.WarnTimeout = 5 /\ log = <<InvalidWarnTimeout>>

C8_Witness ==
    /\ phase = "loaded"
    /\ err = NoErr
    /\ FileRead.exists /\ FileRead.global = OneVar("warn_timeout", <<"0">>)
    /\ Get(ProcEnv, DIRENV_WARN_TIMEOUT) = <<"5", "x">>
    /\ config.WarnTimeout = 5
    /\ log = <<InvalidWarnTimeout>>

\* the Config holds value v for the setting with key k (an empty bash_path
\* and a zero warn_timeout are resolved further, from the environment)
Holds(k, v) ==
    CASE k = "bash_builtin" -> config.BashBuiltin = v
      [] k = "bash_path" -> v # Empty => config.BashPath = v
      [] k = "disable_stdin" -> config.DisableStdin = v
      [] k = "strict_env" -> config.StrictEnv = v
      [] k = "warn_timeout" ->
            ParseDuration(v).d # 0 => config.WarnTimeout = ParseDuration(v).d

\* C9: a setting declared in one place only, top level or [global], gives
\* the Config the declared value whichever place it is; a setting declared
\* in both gives it the value the decoder stored last: the [global] one when
\* the decoder came to the top-level key first, the top-level one otherwise.
C9_Merge ==
    (phase = "loaded" /\ FileRead.exists) =>
        \A k \in SettingSet :
            /\ (AtTop(k) /\ ~InGlobal(k)) => Holds(k, FileRead.top[k])
            /\ (InGlobal(k) /\ ~AtTop(k)) => Holds(k, FileRead.global[k])
            /\ (AtTop(k) /\ InGlobal(k)) =>
                  IF k \in sys.before THEN Holds(k, FileRead.global[k])
                  ELSE Holds(k, FileRead.top[k])

\* two settings declared in both places with different values: for one the
\* top level wins, for the other [global]
C9_Witness ==
    /\ phase = "loaded"
    /\ FileRead.top = SetVar(OneVar("bash_path", BashFile), "strict_env", TRUE)
    /\ FileRead.global = SetVar(OneVar("bash_path", BashEnv), "strict_env", FALSE)
    /\ sys.before = {"strict_env"}
    /\ config.BashPath = BashFile
    /\ config.StrictEnv = FALSE

\* the bash_path of the config file read, "" when it declares none (for a
\* file that declares it in one place only)
FileBashPath ==
    IF AtTop("bash_path") THEN FileRead.top["bash_path"]
    ELSE IF InGlobal("bash_path") THEN FileRead.global["bash_path"]
    ELSE Empty

\* LoadConfig came to the interpreter: nothing before it failed
CameToBash == phase # "start" /\ err \notin {ErrConfDir, ErrExecutable, ErrGetwd, ErrParse}

\* C10: BashPath is the config file's bash_path when that is not empty, else
\* DIRENV_BASH when that is not empty, else the built-in bashPath when that
\* is not empty, else what the PATH lookup of "bash" finds; LoadConfig fails
\* with "can't find bash" exactly when there is none of the four; after a
\* successful LoadConfig BashPath is not empty.
C10_BashPath ==
    /\ phase = "loaded" => config.BashPath # Empty
    /\ (CameToBash /\ ~(AtTop("bash_path") /\ InGlobal("bash_path"))) =>
          LET envBash == Get(ProcEnv, DIRENV_BASH)
              expected == IF FileBashPath # Empty THEN FileBashPath
                          ELSE IF envBash # Empty THEN envBash
                          ELSE IF sys.bashPath # Empty THEN sys.bashPath
                          ELSE sys.lookPath
          IN  /\ config.BashPath = expected
              /\ err = CantFindBash <=> expected = Empty

C10_Witness ==
    /\ phase = "loaded"
    /\ FileRead.exists /\ FileRead.top = OneVar("bash_path", Empty)
    /\ Get(ProcEnv, DIRENV_BASH) = BashEnv
    /\ sys.bashPath = BashBuiltin
    /\ sys.lookPath = BashLooked
    /\ config.BashPath = BashEnv

(***************************************************************************)
(* Reverting: a previous invocation ran a script on snapshot `before`,     *)
(* got `after`, and recorded the diff in DIRENV_DIFF.                      *)
(***************************************************************************)
UserNames == {NameOrder[i] : i \in 1..MaxVars}
Values == {Empty, <<"a">>, <<"=", "~">>}
Snapshots == UNION {[K -> Values] : K \in SUBSET UserNames}

\* what a damaged copy of a serialised diff may look like
Garbled(e) == {SubSeq(e, 1, Len(e) - 1), Tail(e), e \o <<PresentMark>>, <<"x">>}

\* the Envs the process may start with after a run from a to b: the diff
\* recorded, or damaged, or (when nothing changed) empty or not set
RecordedEnvs(a, b) ==
    LET e == Encode(Compute(a, b))
    IN  {SetVar(b, DIRENV_DIFF, d) : d \in {e} \cup Garbled(e)}
            \cup (IF a = b THEN {b, SetVar(b, DIRENV_DIFF, Empty)} ELSE {})

InitRevert ==
    \E a \in Snapshots, b \in Snapshots :
        \E env \in RecordedEnvs(a, b) :
            StartWith(DefaultSys, <<env, b>>, << >>, [before |-> a, after |-> b])

\* config.Revert(env), for any Env at hand
RevertCall ==
    /\ phase = "loaded"
    /\ Len(heap) < 2 + MaxReverts
    /\ \E e \in DOMAIN heap :
          LET r == Revert(heap, config.Env, e)
          IN  /\ heap' = r.heap
              /\ err' = r.err
              /\ ret' = [NoRet EXCEPT !.op = "Revert", !.arg = e, !.env = r.ref]
    /\ UNCHANGED <<sys, phase, config, log, records, scripts, hist>>

NextRevert == LoadConfig \/ RevertCall

SpecRevert == InitRevert /\ [][NextRevert]_vars

\* the diff string the Config's Env records
Recorded == Get(heap[config.Env], DIRENV_DIFF)

\* C1: when DIRENV_DIFF is Encode(Compute(A, B)), Revert succeeds and, given
\* B, returns exactly A; given any Env, every key the script added is absent
\* from the result, every key it removed or modified has its old value, and
\* every key not in the diff is as in the Env given.
C1_RevertRoundTrip ==
    (ret.op = "Revert" /\ Recorded = Encode(Compute(hist.before, hist.after))) =>
        /\ err = NoErr
        /\ ret.env \in DOMAIN heap
        /\ LET a == hist.before
               b == hist.after
               given == heap[ret.arg]
               result == heap[ret.env]
           IN  /\ given = b => result = a
               /\ \A k \in DOMAIN a \cup DOMAIN b \cup DOMAIN given \cup DOMAIN result :
                     /\ (k \notin DOMAIN a /\ k \in DOMAIN b) => k \notin DOMAIN result
                     /\ (k \in DOMAIN a /\ (k \notin DOMAIN b \/ b[k] # a[k])) =>
                           (k \in DOMAIN result /\ result[k] = a[k])
                     /\ Lookup(a, k) = Lookup(b, k) => Lookup(result, k) = Lookup(given, k)

C1_Witness ==
    /\ ret.op = "Revert"
    /\ hist.before = [k \in {"P"} |-> <<"a">>]
    /\ hist.after = [k \in {"F", "P"} |-> IF k = "F" THEN Empty ELSE <<"=", "~">>]
    /\ Recorded = <<"#", "F", "~", "=", "0", "P", "=", "1", "a", "=", "2", "=", "~">>
    /\ heap[ret.arg] = hist.after
    /\ err = NoErr
    /\ heap[ret.env] = [k \in {"P"} |-> <<"a">>]

\* the Envs of the start are as they were: the Config's own Env, and the
\* snapshot at hand
StartEnvsUntouched ==
    /\ Len(heap) >= 2
    /\ heap[2] = hist.after
    /\ [k \in DOMAIN heap[1] \ {DIRENV_DIFF} |-> heap[1][k]] = hist.after
    /\ Get(heap[1], DIRENV_DIFF) = Recorded

\* C3 as stated: a recorded diff that is not empty and cannot be decoded is
\* taken for no diff: Revert gives what it gives when no diff is recorded, a
\* copy of the Env it was given and no error.
C3_TakenForNoDiff ==
    (ret.op = "Revert" /\ Recorded # Empty /\ ~LoadEnvDiff(Recorded).ok) =>
        /\ err = NoErr
        /\ ret.env \in DOMAIN heap
        /\ heap[ret.env] = heap[ret.arg]

\* C3 amended: when the recorded diff is not empty and cannot be decoded,
\* Revert returns the decode error and no Env: no part of the diff is
\* applied, no Env is made and the Envs at hand are not modified.
C3_DecodeErrorReturned ==
    (ret.op = "Revert" /\ Recorded # Empty /\ ~LoadEnvDiff(Recorded).ok) =>
        /\ err = DiffDecodeError
        /\ ret.env = NilRef
        /\ Len(heap) = 2
        /\ StartEnvsUntouched

C3_Witness ==
    /\ ret.op = "Revert"
    /\ hist.before = << >>
    /\ hist.after = [k \in {"F"} |-> <<"a">>]
    /\ Recorded = <<"#", "F", "~", "=", "1">>
    /\ ret.arg = 2
    /\ err = DiffDecodeError
    /\ ret.env = NilRef

\* C7: when no diff is recorded (DIRENV_DIFF empty or unset) Revert succeeds
\* and returns a new Env, equal key for key to the one it was given; the Env
\* given and the Config's own Env are not modified.
C7_NoDiffCopies ==
    (ret.op = "Revert" /\ Recorded = Empty) =>
        /\ err = NoErr
        /\ ret.env \in DOMAIN heap
        /\ ret.env # ret.arg
        /\ ret.env # config.Env
        /\ ret.env = Len(heap)
        /\ heap[ret.env] = heap[ret.arg]
        /\ StartEnvsUntouched

C7_Witness ==
    /\ ret.op = "Revert"
    /\ DIRENV_DIFF \notin DOMAIN heap[config.Env]
    /\ ret.arg = config.Env
    /\ heap[config.Env] = [k \in {"F", "P"} |-> IF k = "F" THEN Empty ELSE <<"a">>]
    /\ err = NoErr
    /\ ret.env = 3
    /\ heap[3] = heap[1]

(***************************************************************************)
(* Trust: scripts are approved, revoked, edited and checked.               *)
(***************************************************************************)
ScriptX == <<"/", "x">> \o SlashEnvrc
ScriptW == <<"/", "w">> \o SlashEnvrc
ScriptPaths == {ScriptX, ScriptW}

\* the contents a script may have, each named by its signature
Contents == 0..MaxEdits

InitTrust ==
    \E exact \in {<< >>, <<<<"/", "x">>>>}, prefix \in {<< >>, <<<<"/", "x", "/">>>>} :
        StartWith([DefaultSys EXCEPT !.direnvToml = File(<< >>, << >>, prefix, exact)],
                  <<NoEnv>>, [p \in ScriptPaths |-> 0], NoHist)

Called(op, path) == [NoRet EXCEPT !.op = op, !.script = path]

\* the script at path is approved with its current content
Approve ==
    /\ phase = "loaded"
    /\ \E path \in ScriptPaths :
          /\ records' = ApproveOf(records, path, scripts[path])
          /\ ret' = Called("Approve", path)
    /\ UNCHANGED <<heap, sys, phase, config, err, log, scripts, hist>>

\* the approval of the script at path is revoked
Revoke ==
    /\ phase = "loaded"
    /\ \E path \in ScriptPaths :
          /\ records' = RevokeOf(records, path)
          /\ ret' = Called("Revoke", path)
    /\ UNCHANGED <<heap, sys, phase, config, err, log, scripts, hist>>

\* the content of the script at path changes
Edit ==
    /\ phase = "loaded"
    /\ \E path \in ScriptPaths, content \in Contents :
          /\ content # scripts[path]
          /\ scripts' = [scripts EXCEPT ![path] = content]
          /\ ret' = Called("Edit", path)
    /\ UNCHANGED <<heap, sys, phase, config, err, log, records, hist>>

\* the script at path is checked
CheckAllowed ==
    /\ phase = "loaded"
    /\ \E path \in ScriptPaths :
          ret' = [Called("IsAllowed", path) EXCEPT
                      !.trust = IsAllowed(config, records, path, scripts[path])]
    /\ UNCHANGED <<heap, sys, phase, config, err, log, records, scripts, hist>>

NextTrust == LoadConfig \/ Approve \/ Revoke \/ Edit \/ CheckAllowed

SpecTrust == InitTrust /\ [][NextTrust]_vars

\* C2: whatever approvals, revocations and edits came before, IsAllowed
\* trusts a script only if it matches the whitelist (exact or prefix) or a
\* record under its key stores its current signature; a script with a record
\* that stores another signature, and no whitelist match, is not trusted:
\* its approval is stale.
C2_TrustedOnlyIfFresh ==
    ret.op = "IsAllowed" =>
        LET path == ret.script
            key == <<"allow">> \o path
            listed == \/ path \in config.WhitelistExact
                      \/ \E i \in DOMAIN config.WhitelistPrefix :
                            /\ Len(config.WhitelistPrefix[i]) <= Len(path)
                            /\ SubSeq(path, 1, Len(config.WhitelistPrefix[i]))
                                   = config.WhitelistPrefix[i]
            fresh == key \in DOMAIN records /\ records[key] = scripts[path]
        IN  /\ ret.trust.trusted => (listed \/ fresh)
            /\ (key \in DOMAIN records /\ ~fresh /\ ~listed) =>
                  ret.trust = Decision(FALSE, "stale-approval")

C2_Witness ==
    /\ ret.op = "IsAllowed"
    /\ ret.script = ScriptW
    /\ PathKey(ScriptW) \in DOMAIN records
    /\ records[PathKey(ScriptW)] = 0
    /\ scripts[ScriptW] = 1
    /\ ret.trust = Decision(FALSE, "stale-approval")

====
